---------------------------- MODULE Spec2Model ----------------------------
(***************************************************************************)
(* A model of pychicken/pychicken.py: the pyChicken coordinator.           *)
(*                                                                         *)
(* Three workers share one pyChicken object:                               *)
(*   - the motion worker, whose callback _motion_sensor calls _send_tweet; *)
(*   - the livestream worker, _run_livestream, which calls                 *)
(*     _send_livestream once;                                              *)
(*   - the facts worker, _run_retrieve_facts, which reloads the facts once.*)
(* Each worker is modelled one statement at a time, so that every          *)
(* interleaving of their reads and writes of the shared attributes         *)
(* (running_livestream, camera, facts, facts_count, timestamp) is a        *)
(* behaviour.  _check_timestamp is modelled the same way; no method of the *)
(* class calls it, so it is driven by callers of its own in SpecLimiter    *)
(* and SpecLimiterConc.                                                    *)
(*                                                                         *)
(* The libraries are modelled by their documented behaviour:               *)
(*   PiCamera()      raises while another PiCamera object is open, and may *)
(*                   raise for a hardware fault;                           *)
(*   capture, start_recording, wait_recording, stop_recording raise        *)
(*                   PiCameraClosed on a closed object;                    *)
(*   close()         is idempotent and stops a running recording;          *)
(*   tweepy calls    return or raise;                                      *)
(*   KeyboardInterrupt is the only stop request _send_livestream handles.  *)
(* Configuration values are taken as numbers (tweet_interval in seconds).  *)
(***************************************************************************)
EXTENDS Integers, Sequences, FiniteSets

\* ------------------------------------------------------------------ bounds
MaxEvents == 2      \* motion events delivered
MaxClock == 1       \* last tick of the clock while the workers run
MaxTime == 6        \* last tick of the clock in the limiter's specifications
MaxInterval == 2    \* largest configured tweet_interval
MaxFacts == 1       \* largest facts collection
MaxWaits == 1       \* wait_recording periods counted
MaxGrants == 3      \* granted admissions recorded

VARIABLES
  clock,               \* datetime.now()
  tweet_interval,      \* self.tweet_interval
  timestamp,           \* self.timestamp
  running_livestream,  \* self.running_livestream
  camera,              \* self.camera: 0 while the attribute is unset, else an object
  cams,                \* the PiCamera objects created so far: [open, recording, by]
  facts,               \* self.facts
  facts_count,         \* self.facts_count
  sink,                \* the calls that reached twitter.update_status
  mpc,                 \* motion worker: position in _send_tweet
  events,              \* motion events delivered so far
  mStart,              \* the time the current event arrived
  mSaw,                \* value of running_livestream read at line 184
  mCount,              \* value of facts_count read at line 214
  mIdx,                \* fact_number
  mMsg,                \* message
  mCamOps,             \* whether the current event made a camera call
  mErr,                \* exception the last event raised
  lpc,                 \* livestream worker: position in _send_livestream
  pipeBound,           \* whether the local stream_pipe is bound
  lsWaits,             \* wait_recording periods completed
  lErr,                \* exception _send_livestream raised
  fpc,                 \* facts worker position
  fNew,                \* the tuple _load_facts_file returned
  rpc,                 \* callers of _check_timestamp: position
  rNow,                \* curr_time
  rBase,               \* the value of self.timestamp read at line 153
  rRet,                \* the value returned: "True", "False", or "none" during a call
  grants,              \* granted admissions: [at, base, by]
  runpc,               \* position in run()
  started              \* the threads whose start() has been called

limiterVars == <<rpc, rNow, rBase, rRet, grants>>
motionVars == <<mpc, events, mStart, mSaw, mCount, mIdx, mMsg, mCamOps, mErr>>
liveVars == <<lpc, pipeBound, lsWaits, lErr>>
factsVars == <<fpc, fNew>>
sharedVars == <<timestamp, running_livestream, camera, cams, facts, facts_count, sink>>
runVars == <<runpc, started>>
vars ==
  <<clock, tweet_interval, sharedVars, motionVars, liveVars, factsVars,
    limiterVars, runVars>>

Callers == {1, 2}

\* A facts collection: generation g, n items.
Collection(g, n) == [i \in 1..n |-> [gen |-> g, seq |-> i]]

NoFact == [gen |-> -1, seq |-> 0]

\* ---------------------------------------------------------------- __init__
\* _set_timestamp returning a fixed time long past instead of now().
SetTimestampEpoch == 0 - (MaxTime + 1)

\* _set_timestamp, lines 144-146: datetime.now().
SetTimestamp == clock

\* The state __init__ leaves, with tweet_interval configured as one of
\* `intervals`.
Constructed(intervals) ==
  /\ clock = 0
  /\ tweet_interval \in intervals
  /\ mStart = 0
  /\ timestamp = SetTimestamp
  /\ running_livestream = FALSE
  /\ camera = 0
  /\ cams = <<>>
  /\ \E n \in 0..MaxFacts : facts = Collection(0, n) /\ facts_count = n
  /\ sink = <<>>
  /\ mpc = "idle" /\ events = 0 /\ mSaw = FALSE /\ mCount = 0 /\ mIdx = 0
  /\ mMsg = NoFact /\ mCamOps = FALSE /\ mErr = "none"
  /\ lpc = "ls_sleep" /\ pipeBound = FALSE /\ lsWaits = 0 /\ lErr = "none"
  /\ fpc = "f_sleep" /\ fNew = <<>>
  /\ rpc = [c \in Callers |-> "idle"]
  /\ rNow = [c \in Callers |-> 0]
  /\ rBase = [c \in Callers |-> 0]
  /\ rRet = [c \in Callers |-> "none"]
  /\ grants = <<>>
  /\ runpc = "r_facts_thread"
  /\ started = {}

Init == Constructed({MaxInterval})

\* Time passes.
Tick(last) ==
  /\ clock < last
  /\ clock' = clock + 1
  /\ UNCHANGED <<tweet_interval, sharedVars, motionVars, liveVars, factsVars,
                 limiterVars, runVars>>


\* ------------------------------------------------------------ motion worker
MotionFrame ==
  UNCHANGED <<clock, tweet_interval, timestamp, running_livestream, facts,
              facts_count, liveVars, factsVars, limiterVars, runVars>>

\* An exception leaves _send_tweet (lines 207-209) and the callback.
MotionRaise(e) ==
  mpc' = "idle" /\ mErr' = e /\ mCount' = 0 /\ mIdx' = 0 /\ mMsg' = NoFact

\* _send_tweet returns update.id (line 205).
MotionReturn ==
  mpc' = "idle" /\ mCount' = 0 /\ mIdx' = 0 /\ mMsg' = NoFact /\ UNCHANGED mErr

\* The next statement of the handler is reached.
MotionGoto(pc) == mpc' = pc /\ UNCHANGED <<mCount, mIdx, mMsg, mErr>>

\* Line 184 with its two branches exchanged.
TweetBranchSwapped(flag) == IF flag THEN "fact_count" ELSE "tw_announce"

\* _send_tweet, line 184: `if self.running_livestream:`.
TweetBranch(flag) == IF flag THEN "tw_announce" ELSE "fact_count"

\* The motion sensor fires: _motion_sensor calls _send_tweet.
MotionDetected ==
  /\ mpc = "idle"
  /\ events < MaxEvents
  /\ events' = events + 1
  /\ mStart' = clock
  /\ mpc' = "tw_check"
  /\ mSaw' = FALSE /\ mCount' = 0 /\ mIdx' = 0 /\ mMsg' = NoFact
  /\ mCamOps' = FALSE /\ mErr' = "none"
  /\ UNCHANGED <<camera, cams, sink>>
  /\ MotionFrame

TweetCheck ==
  /\ mpc = "tw_check"
  /\ mSaw' = running_livestream
  /\ MotionGoto(TweetBranch(running_livestream))
  /\ UNCHANGED <<events, mStart, mCamOps, camera, cams, sink>>
  /\ MotionFrame

\* The announcement put behind the interval check: dropped when
\* _check_timestamp would return False.
TweetAnnounceLimited ==
  /\ mpc = "tw_announce"
  /\ \/ /\ clock - timestamp > tweet_interval
        /\ sink' = Append(sink, [kind |-> "text", ev |-> events])
        /\ MotionReturn
     \/ /\ ~(clock - timestamp > tweet_interval)
        /\ MotionReturn
        /\ UNCHANGED sink
  /\ UNCHANGED <<events, mStart, mSaw, mCamOps, camera, cams>>
  /\ MotionFrame

\* The announcement recording itself in self.timestamp.
TweetAnnounceStamping ==
  /\ mpc = "tw_announce"
  /\ sink' = Append(sink, [kind |-> "text", ev |-> events])
  /\ timestamp' = clock
  /\ MotionReturn
  /\ UNCHANGED <<events, mStart, mSaw, mCamOps, camera, cams>>
  /\ UNCHANGED <<clock, tweet_interval, running_livestream, facts,
                 facts_count, liveVars, factsVars, limiterVars, runVars>>

\* Lines 185-187 and 204-205: the text-only status update.
TweetAnnounce ==
  /\ mpc = "tw_announce"
  /\ \/ /\ sink' = Append(sink, [kind |-> "text", ev |-> events])
        /\ MotionReturn
     \/ /\ MotionRaise("PublishError")
        /\ UNCHANGED sink
  /\ UNCHANGED <<events, mStart, mSaw, mCamOps, camera, cams>>
  /\ MotionFrame

\* _get_tweet_fact, line 214: fact_number = randrange(self.facts_count).
FactNumber ==
  /\ mpc = "fact_count"
  /\ \/ /\ facts_count = 0
        /\ MotionRaise("ValueError")
     \/ /\ mCount' = facts_count
        /\ \E i \in 0..(facts_count - 1) : mIdx' = i
        /\ mpc' = "fact_read"
        /\ UNCHANGED <<mMsg, mErr>>
  /\ UNCHANGED <<events, mStart, mSaw, mCamOps, camera, cams, sink>>
  /\ MotionFrame

\* _get_tweet_fact, lines 215-231: fact = self.facts[fact_number].
FactRead ==
  /\ mpc = "fact_read"
  /\ \/ /\ mIdx < Len(facts)
        /\ mMsg' = facts[mIdx + 1]
        /\ mpc' = "cam_init"
        /\ UNCHANGED <<mCount, mIdx, mErr>>
     \/ /\ mIdx >= Len(facts)
        /\ MotionRaise("IndexError")
  /\ UNCHANGED <<events, mStart, mSaw, mCamOps, camera, cams, sink>>
  /\ MotionFrame

CameraFree == \A i \in DOMAIN cams : ~cams[i].open

\* close() of an object: closed, and its recording stopped.
Closed(cs, c) == [cs EXCEPT ![c].open = FALSE, ![c].recording = FALSE]

\* PiCamera() succeeding although another object is open.
CamInitOpensBusy ==
  /\ mpc = "cam_init"
  /\ mCamOps' = TRUE
  /\ cams' = Append(cams, [open |-> TRUE, recording |-> FALSE, by |-> events])
  /\ camera' = Len(cams) + 1
  /\ MotionGoto("cam_capture")
  /\ UNCHANGED <<events, mStart, mSaw, sink>>
  /\ MotionFrame

\* _image_capture line 168, _initialize_camera: self.camera = PiCamera().
CamInit ==
  /\ mpc = "cam_init"
  /\ mCamOps' = TRUE
  /\ \/ /\ CameraFree
        /\ cams' = Append(cams, [open |-> TRUE, recording |-> FALSE, by |-> events])
        /\ camera' = Len(cams) + 1
        /\ MotionGoto("cam_capture")
     \/ /\ MotionRaise("CameraError")
        /\ UNCHANGED <<camera, cams>>
  /\ UNCHANGED <<events, mStart, mSaw, sink>>
  /\ MotionFrame

\* _image_capture line 170: self.camera.capture(...).
CamCapture ==
  /\ mpc = "cam_capture"
  /\ mCamOps' = TRUE
  /\ \/ /\ cams[camera].open
        /\ MotionGoto("cam_close")
     \/ MotionRaise("CameraError")
  /\ UNCHANGED <<events, mStart, mSaw, camera, cams, sink>>
  /\ MotionFrame

\* _image_capture line 171, _close_camera.
CamClose ==
  /\ mpc = "cam_close"
  /\ mCamOps' = TRUE
  /\ \/ /\ cams' = Closed(cams, camera)
        /\ MotionGoto("tw_upload")
     \/ /\ MotionRaise("CameraError")
        /\ UNCHANGED cams
  /\ UNCHANGED <<events, mStart, mSaw, camera, sink>>
  /\ MotionFrame

\* Line 194: self.twitter.media_upload.
TweetUpload ==
  /\ mpc = "tw_upload"
  /\ \/ MotionGoto("tw_update")
     \/ MotionRaise("PublishError")
  /\ UNCHANGED <<events, mStart, mSaw, mCamOps, camera, cams, sink>>
  /\ MotionFrame

\* Lines 198 and 204-205: the status update with the image.
TweetUpdate ==
  /\ mpc = "tw_update"
  /\ \/ /\ sink' = Append(sink, [kind |-> "media", ev |-> events])
        /\ MotionReturn
     \/ /\ MotionRaise("PublishError")
        /\ UNCHANGED sink
  /\ UNCHANGED <<events, mStart, mSaw, mCamOps, camera, cams>>
  /\ MotionFrame

Motion ==
  \/ MotionDetected \/ TweetCheck \/ TweetAnnounce \/ FactNumber \/ FactRead
  \/ CamInit \/ CamCapture \/ CamClose \/ TweetUpload \/ TweetUpdate

\* -------------------------------------------------------- livestream worker
LiveFrame ==
  UNCHANGED <<clock, tweet_interval, timestamp, camera, facts, facts_count,
              sink, motionVars, factsVars, limiterVars, runVars>>

\* The `finally:` of line 252 is entered with exception e pending.
LiveFinally(e) == lpc' = "ls_finally_close" /\ lErr' = e

\* The exception leaves _send_livestream, and the worker ends.
LiveDies(e) == lpc' = "ls_dead" /\ lErr' = e

\* _run_livestream line 302, _send_livestream line 238.
LsStart ==
  /\ lpc = "ls_sleep"
  /\ running_livestream' = TRUE
  /\ lpc' = "ls_popen"
  /\ UNCHANGED <<cams, pipeBound, lsWaits, lErr>>
  /\ LiveFrame

\* Lines 242-243: stream_pipe = subprocess.Popen(...).
LsPopen ==
  /\ lpc = "ls_popen"
  /\ \/ pipeBound' = TRUE /\ lpc' = "ls_record" /\ UNCHANGED lErr
     \/ LiveFinally("OSError") /\ UNCHANGED pipeBound
  /\ UNCHANGED <<running_livestream, cams, lsWaits>>
  /\ LiveFrame

\* Line 245: self.camera.start_recording(...).
LsRecord ==
  /\ lpc = "ls_record"
  /\ \/ /\ camera = 0
        /\ LiveFinally("AttributeError")
        /\ UNCHANGED cams
     \/ /\ camera # 0
        /\ ~cams[camera].open
        /\ LiveFinally("PiCameraClosed")
        /\ UNCHANGED cams
     \/ /\ camera # 0
        /\ cams[camera].open
        /\ \/ /\ cams' = [cams EXCEPT ![camera].recording = TRUE]
              /\ lpc' = "ls_loop"
              /\ UNCHANGED lErr
           \/ /\ LiveFinally("CameraError")
              /\ UNCHANGED cams
  /\ UNCHANGED <<running_livestream, pipeBound, lsWaits>>
  /\ LiveFrame

Recording == camera # 0 /\ cams[camera].open /\ cams[camera].recording

\* Lines 246-247: one turn of `while True: wait_recording(duration)`.
LsWait ==
  /\ lpc = "ls_loop"
  /\ \/ /\ Recording
        /\ lsWaits' = IF lsWaits < MaxWaits THEN lsWaits + 1 ELSE lsWaits
        /\ UNCHANGED <<lpc, lErr>>
     \/ /\ LiveFinally(IF Recording THEN "CameraError" ELSE "PiCameraClosed")
        /\ UNCHANGED lsWaits
  /\ UNCHANGED <<running_livestream, cams, pipeBound>>
  /\ LiveFrame

\* Line 249: a KeyboardInterrupt arrives during the loop.
LsInterrupt ==
  /\ lpc = "ls_loop"
  /\ lpc' = "ls_stop"
  /\ UNCHANGED <<running_livestream, cams, pipeBound, lsWaits, lErr>>
  /\ LiveFrame

\* Line 250: self.camera.stop_recording().
LsStop ==
  /\ lpc = "ls_stop"
  /\ \/ /\ Recording
        /\ cams' = [cams EXCEPT ![camera].recording = FALSE]
        /\ lpc' = "ls_finally_close"
        /\ UNCHANGED lErr
     \/ /\ ~Recording
        /\ LiveFinally("PiCameraClosed")
        /\ UNCHANGED cams
  /\ UNCHANGED <<running_livestream, pipeBound, lsWaits>>
  /\ LiveFrame

\* Line 254: self._close_camera().
LsFinallyClose ==
  /\ lpc = "ls_finally_close"
  /\ \/ /\ camera = 0
        /\ LiveDies("AttributeError")
        /\ UNCHANGED cams
     \/ /\ camera # 0
        /\ \/ /\ cams' = Closed(cams, camera)
              /\ lpc' = "ls_finally_pipe"
              /\ UNCHANGED lErr
           \/ /\ LiveDies("CameraError")
              /\ UNCHANGED cams
  /\ UNCHANGED <<running_livestream, pipeBound, lsWaits>>
  /\ LiveFrame

\* Line 255: stream_pipe.stdin.close().
LsFinallyPipe ==
  /\ lpc = "ls_finally_pipe"
  /\ \/ pipeBound /\ lpc' = "ls_finally_flag" /\ UNCHANGED lErr
     \/ ~pipeBound /\ LiveDies("UnboundLocalError")
  /\ UNCHANGED <<running_livestream, cams, pipeBound, lsWaits>>
  /\ LiveFrame

\* Line 256: self.running_livestream = False.
LsFinallyFlag ==
  /\ lpc = "ls_finally_flag"
  /\ running_livestream' = FALSE
  /\ lpc' = "ls_done"
  /\ UNCHANGED <<cams, pipeBound, lsWaits, lErr>>
  /\ LiveFrame

Live ==
  \/ LsStart \/ LsPopen \/ LsRecord \/ LsWait \/ LsInterrupt \/ LsStop
  \/ LsFinallyClose \/ LsFinallyPipe \/ LsFinallyFlag

\* ------------------------------------------------------------- facts worker
FactsFrame ==
  UNCHANGED <<clock, tweet_interval, timestamp, running_livestream, camera,
              cams, sink, motionVars, liveVars, limiterVars, runVars>>

\* Lines 294-295 and _load_facts_file: the fetch and the parse succeed.
FactsLoad ==
  /\ fpc = "f_sleep"
  /\ \E n \in 0..MaxFacts : fNew' = <<Collection(1, n), n>>
  /\ fpc' = "f_store_facts"
  /\ UNCHANGED <<facts, facts_count>>
  /\ FactsFrame

\* A failed load that stores an empty collection before it raises.
FactsLoadFailsBlanking ==
  /\ fpc = "f_sleep"
  /\ fpc' = "f_dead"
  /\ facts' = <<>>
  /\ facts_count' = 0
  /\ UNCHANGED fNew
  /\ FactsFrame

\* requests.get or yaml.load raises: the exception leaves line 295 before
\* either attribute is stored, and the worker ends.
FactsLoadFails ==
  /\ fpc = "f_sleep"
  /\ fpc' = "f_dead"
  /\ UNCHANGED <<facts, facts_count, fNew>>
  /\ FactsFrame

\* Line 295, first target of the tuple assignment.
FactsStoreFacts ==
  /\ fpc = "f_store_facts"
  /\ facts' = fNew[1]
  /\ fpc' = "f_store_count"
  /\ UNCHANGED <<facts_count, fNew>>
  /\ FactsFrame

\* Line 295, second target of the tuple assignment.
FactsStoreCount ==
  /\ fpc = "f_store_count"
  /\ facts_count' = fNew[2]
  /\ fpc' = "f_done"
  /\ UNCHANGED <<facts, fNew>>
  /\ FactsFrame

Facts == FactsLoad \/ FactsLoadFails \/ FactsStoreFacts \/ FactsStoreCount

Next == Tick(MaxClock) \/ Motion \/ Live \/ Facts

Spec == Init /\ [][Next]_vars

\* ---------------------------------------------------------- _check_timestamp
LimiterFrame ==
  UNCHANGED <<clock, tweet_interval, running_livestream, camera, cams, facts,
              facts_count, sink, motionVars, liveVars, factsVars, runVars>>

\* Line 156 with the interval left out of the comparison.
AdmitsIgnoringInterval(secs, interval) == secs >= 0

\* Line 156: `if ( secs_since_tweet > self.tweet_interval ):`.
Admits(secs, interval) == secs > interval

\* Line 152: curr_time = datetime.now().
RlCall(c) ==
  /\ rpc[c] = "idle"
  /\ Len(grants) < MaxGrants
  /\ rNow' = [rNow EXCEPT ![c] = clock]
  /\ rRet' = [rRet EXCEPT ![c] = "none"]
  /\ rpc' = [rpc EXCEPT ![c] = "rl_read"]
  /\ UNCHANGED <<timestamp, rBase, grants>>
  /\ LimiterFrame

\* Lines 153-154: time_since_tweet = curr_time - self.timestamp.
RlRead(c) ==
  /\ rpc[c] = "rl_read"
  /\ rBase' = [rBase EXCEPT ![c] = timestamp]
  /\ rpc' = [rpc EXCEPT ![c] = "rl_cmp"]
  /\ UNCHANGED <<timestamp, rNow, rRet, grants>>
  /\ LimiterFrame

\* Lines 156 and 160-161: the comparison, and `return False`.
RlCompare(c) ==
  /\ rpc[c] = "rl_cmp"
  /\ IF Admits(rNow[c] - rBase[c], tweet_interval)
       THEN rpc' = [rpc EXCEPT ![c] = "rl_set"] /\ UNCHANGED rRet
       ELSE rpc' = [rpc EXCEPT ![c] = "idle"] /\ rRet' = [rRet EXCEPT ![c] = "False"]
  /\ UNCHANGED <<timestamp, rNow, rBase, grants>>
  /\ LimiterFrame

\* Lines 157-158 and _set_timestamp: self.timestamp = datetime.now().
RlSet(c) ==
  /\ rpc[c] = "rl_set"
  /\ timestamp' = SetTimestamp
  /\ grants' = Append(grants, [at |-> clock, base |-> rBase[c], by |-> c])
  /\ rRet' = [rRet EXCEPT ![c] = "True"]
  /\ rpc' = [rpc EXCEPT ![c] = "idle"]
  /\ UNCHANGED <<rNow, rBase>>
  /\ LimiterFrame

CheckTimestamp(c) == RlCall(c) \/ RlRead(c) \/ RlCompare(c) \/ RlSet(c)

InitLimiter == Constructed(1..MaxInterval)

\* One caller: admission attempts one after the other.
NextLimiter == Tick(MaxTime) \/ CheckTimestamp(1)

SpecLimiter == InitLimiter /\ [][NextLimiter]_vars

\* Two callers: admission attempts that overlap.
NextLimiterConc == Tick(MaxTime) \/ \E c \in Callers : CheckTimestamp(c)

SpecLimiterConc == InitLimiter /\ [][NextLimiterConc]_vars

\* ----------------------------------------------------------------------- run
RunFrame ==
  UNCHANGED <<clock, tweet_interval, sharedVars, motionVars, liveVars,
              factsVars, limiterVars>>

\* Lines 308-309: facts_thread = threading.Thread(name='facts', ...).
RunCreateFacts ==
  /\ runpc = "r_facts_thread"
  /\ runpc' = "r_motion_thread"
  /\ UNCHANGED started
  /\ RunFrame

\* Lines 310-311: motion_thread = threading.Thread(name='motion_sensor', ...).
RunCreateMotion ==
  /\ runpc = "r_motion_thread"
  /\ runpc' = "r_livestream_thread"
  /\ UNCHANGED started
  /\ RunFrame

\* Lines 312-313: `name=livestream` names no variable: NameError leaves
\* run() before line 315, so neither start() call of lines 315-316 is
\* reached (and the file holds no livestream_thread.start() at all).
RunCreateLivestream ==
  /\ runpc = "r_livestream_thread"
  /\ runpc' = "r_raised"
  /\ UNCHANGED started
  /\ RunFrame

Run == RunCreateFacts \/ RunCreateMotion \/ RunCreateLivestream

\* run() called on a constructed object, while time passes.
NextRun == Tick(MaxTime) \/ Run

SpecRun == InitLimiter /\ [][NextRun]_vars

\* ------------------------------------------------------------------ claims

\* The motion capture is between its PiCamera() and its close().
MotionCapturing == mpc \in {"cam_capture", "cam_close"}

\* No broadcast is in progress.
LiveIdle == lpc \in {"ls_sleep", "ls_done", "ls_dead"}

\* C1: admissions granted one after the other by _check_timestamp are at
\* least tweet_interval apart, each measured from the previous granted one.
C1_GrantsSpaced ==
  \A i \in 1..(Len(grants) - 1) :
    grants[i + 1].at - grants[i].at >= tweet_interval

C1_TwoGrants == Len(grants) >= 2 /\ grants[2].at > grants[1].at

\* C2: at most one consumer holds the camera: never two open camera
\* objects, and while a motion capture holds the object it opened, no other
\* consumer records on it or closes it.
C2_CameraExclusive ==
  /\ Cardinality({i \in DOMAIN cams : cams[i].open}) <= 1
  /\ MotionCapturing => cams[camera].open /\ ~cams[camera].recording

\* C3: a publish with media reaches the sink only if the rate limiter
\* granted an admission for that motion event.
C3_MediaOnlyIfAdmitted ==
  \A i \in DOMAIN sink :
    (sink[i].kind = "media" /\ sink[i].ev = events)
      => \E g \in DOMAIN grants : grants[g].at >= mStart

\* C4: of admission checks that overlap, one is granted: no two grants are
\* decided against the same read of self.timestamp, and no two are less than
\* tweet_interval apart.
C4_AtomicAdmission ==
  \A i, j \in DOMAIN grants :
    i < j => /\ grants[i].base # grants[j].base
             /\ grants[j].at - grants[i].at >= tweet_interval

\* C5: no motion capture and no broadcast ends with a camera still open.
C5_AlwaysReleased == (mpc = "idle" /\ LiveIdle) => CameraFree

C7_StartRejectedWhileCapturing ==
  [][(lpc = "ls_sleep" /\ lpc' # "ls_sleep" /\ MotionCapturing)
       => ~running_livestream']_vars

\* C8: once the configured duration has elapsed (one wait_recording period
\* has completed), the broadcast is no longer recording in its loop.
C8_StopsAtDuration == lsWaits >= 1 => lpc # "ls_loop"

\* C9: the pick indexes the collection whose count it read: at line 215 the
\* count read at line 214 is the length of self.facts, and fact_number is in
\* range.
C9_PickConsistent ==
  mpc = "fact_read" => mCount = Len(facts) /\ mIdx < Len(facts)

C11_AdmitsFromInterval ==
  \A c \in Callers :
    /\ rRet[c] = "True" =>
         rNow[c] - rBase[c] >= tweet_interval /\ timestamp >= rNow[c]
    /\ rRet[c] = "False" =>
         rNow[c] - rBase[c] < tweet_interval /\ timestamp = rBase[c]

\* C20: self.timestamp starts at the construction time (time 0), so every
\* check that returns true was made more than tweet_interval after it, and
\* so was every grant.
C20_NoGrantBeforeInterval ==
  /\ \A c \in Callers : rRet[c] = "True" => rNow[c] > tweet_interval
  /\ \A g \in DOMAIN grants : grants[g].at > tweet_interval

C20_DeniedBeforeFirstPublish ==
  /\ grants = <<>>
  /\ rRet[1] = "False"
  /\ rNow[1] = tweet_interval

\* The calls the current motion event has made to update_status.
EventPublishes == {i \in DOMAIN sink : sink[i].ev = events}

\* C12 as stated: while the broadcast is Active a motion event publishes the
\* announcement only if the rate limiter granted an admission for it.
C12_AnnouncedOnlyIfAdmitted ==
  \A i \in EventPublishes :
    sink[i].kind = "text" => \E g \in DOMAIN grants : grants[g].at >= mStart

\* C12 as amended: a motion event that found the broadcast Active publishes
\* the announcement whatever the rate limiter would say: it ends with the
\* publish, or with the publish's own error, and is never dropped.
C12_AnnouncedUnlimited ==
  (mSaw /\ mpc = "idle") =>
    \/ \E i \in EventPublishes : sink[i].kind = "text"
    \/ mErr = "PublishError"

C12_AnnouncedWhileDenied ==
  /\ mSaw /\ mpc = "idle"
  /\ clock - timestamp <= tweet_interval
  /\ \E i \in EventPublishes : sink[i].kind = "text"
  /\ grants = <<>>

\* C13: the announcement path neither consults nor updates the rate
\* limiter: while the handler is at line 187, self.timestamp and the grants
\* stay as they are, and the step that returns publishes the text.
C13_AnnouncementBypassesLimiter ==
  [][mpc = "tw_announce" =>
       /\ timestamp' = timestamp
       /\ grants' = grants
       /\ (mpc' = "idle" /\ mErr' = "none") =>
            sink' = Append(sink, [kind |-> "text", ev |-> events])]_vars

C13_AnnouncedDuringBroadcast ==
  /\ lpc = "ls_loop"
  /\ mSaw /\ mpc = "idle"
  /\ \E i \in EventPublishes : sink[i].kind = "text"
  /\ clock > timestamp

C15_ActiveHoldsCamera ==
  running_livestream =>
    \E i \in DOMAIN cams : cams[i].open /\ cams[i].by = 0

\* C16: a broadcast whose streaming started has made exactly one
\* announcement of its own (a publish that belongs to no motion event).
C16_StartAnnouncedOnce ==
  lsWaits >= 1 =>
    Cardinality({i \in DOMAIN sink : sink[i].kind = "text" /\ sink[i].ev = 0}) = 1

\* C19: when _send_livestream has ended, running_livestream is false.
C19_EndsIdle == lpc \in {"ls_done", "ls_dead"} => ~running_livestream

\* C17: the refresh repeats: after an attempt, successful or failed, the
\* facts worker has a next attempt ahead of it.
C17_RefreshRepeats == fpc \in {"f_done", "f_dead"} => ENABLED Facts

\* C18: once run() has ended, the facts, motion-sensor and livestream
\* workers have all been started.
C18_AllWorkersStarted ==
  runpc \in {"r_done", "r_raised"} =>
    started = {"facts", "motion_sensor", "livestream"}

=============================================================================
